---- MODULE Spec2Model ----
(***************************************************************************)
(* The to-do frontend: the FastAPI backend it talks to, todoService and    *)
(* apiService, the useTodos hook, and TodoPage with its create and edit    *)
(* forms.  Every asynchronous operation of the hook is a task in a slot:   *)
(* it carries the filters and the page its closure captured when it was    *)
(* invoked, the request it has in flight and, once the server has handled  *)
(* the request, the response the client has not yet received.              *)
(*                                                                         *)
(* Spec is the whole page; SpecHook is the hook with its operations called *)
(* directly, SpecMove the hook under page and filter changes only,         *)
(* SpecForm the page with only its two forms;                              *)
(* SpecHealth is the HealthCheck component with its interval and the       *)
(* timeout of its requests; SpecErr, SpecValidate and SpecDate apply the   *)
(* response interceptor of apiService, todoService.validateTodo and        *)
(* formatRelativeDateFromAPI to arguments of their own.                    *)
(***************************************************************************)
EXTENDS Integers, Sequences, FiniteSets, TLC

(* ---------------------------- bounds ---------------------------------- *)
\* number of todos on the server when the page is mounted
MaxTodos == 3
\* the pageSize argument of useTodos (TodoPage passes 10): kept small, so
\* that a handful of todos fill several pages
PageSize == 2
\* number of user events that call the hook in one run: submits, toggles,
\* deletions, page changes, filter changes
MaxEvents == 2
\* number of user events that only change TodoPage and its forms in one run:
\* opening and closing a form, typing into it
MaxEdits == 2
\* number of calls of the hook's operations in one run of the hook on its own
MaxCalls == 1
\* number of page and filter changes in one run of the hook with only these
MaxMoves == 2
\* number of submits of a form in one run of the page with only its forms
MaxSubmits == 1
\* number of asynchronous hook operations in flight at the same time
MaxTasks == 2
\* number of requests that fail without reaching the backend in one run
MaxFailures == 1
\* number of items in the detail array of a 422 response
MaxItems == 2
\* how far the lengths of the titles and descriptions given to validateTodo
\* go beyond the maximal lengths
MaxOver == 1
\* number of whitespace characters before and after such a title
MaxPad == 1
\* number of times the interval of HealthCheck fires in one run
MaxTicks == 2
\* number of units of a timestamp string given to formatRelativeDateFromAPI
MaxUnits == 3

(* ---------------------------- strings --------------------------------- *)
\* A JavaScript string is a sequence of characters; null/undefined is Null,
\* a value that no string equals.
Null == <<"NULL">>

Truthy(s) == s # Null /\ s # <<>>

\* s || ''
OrEmpty(s) == IF Truthy(s) THEN s ELSE <<>>

\* String.prototype.repeat
Rep(c, n) == [i \in 1..n |-> c]

LowerChar(c) == IF c = "A" THEN "a" ELSE IF c = "B" THEN "b" ELSE c

\* String.prototype.toLowerCase
toLowerCase(s) == [i \in 1..Len(s) |-> LowerChar(s[i])]

\* String.prototype.includes: scan the start positions from the left
RECURSIVE includesFrom(_, _, _)
includesFrom(s, sub, i) ==
  IF i + Len(sub) - 1 > Len(s) THEN FALSE
  ELSE IF SubSeq(s, i, i + Len(sub) - 1) = sub THEN TRUE
  ELSE includesFrom(s, sub, i + 1)

includes(s, sub) == includesFrom(s, sub, 1)

\* the characters trim removes
WhiteSpace == {" ", "\t", "\n"}

IsSpace(c) == c \in WhiteSpace

RECURSIVE trimStart(_)
trimStart(s) ==
  IF s # <<>> /\ IsSpace(Head(s)) THEN trimStart(Tail(s)) ELSE s

RECURSIVE trimEnd(_)
trimEnd(s) ==
  IF s # <<>> /\ IsSpace(s[Len(s)]) THEN trimEnd(SubSeq(s, 1, Len(s) - 1)) ELSE s

\* String.prototype.trim
trim(s) == trimEnd(trimStart(s))

(* ------------------------ todoService.validateTodo -------------------- *)
MaxTitleLen == 255
MaxDescriptionLen == 1024

\* validateTodoErrors with the title limit off by one
validateTodoErrors_offByOne(todoData) ==
  (IF ~Truthy(todoData.title) \/ Len(trim(todoData.title)) = 0
     THEN {"title"} ELSE {})
  \cup
  (IF Truthy(todoData.title) /\ Len(todoData.title) >= MaxTitleLen
     THEN {"title"} ELSE {})
  \cup
  (IF Truthy(todoData.description) /\ Len(todoData.description) > MaxDescriptionLen
     THEN {"description"} ELSE {})

\* the keys of the errors object validateTodo builds
validateTodoErrors(todoData) ==
  (IF ~Truthy(todoData.title) \/ Len(trim(todoData.title)) = 0
     THEN {"title"} ELSE {})
  \cup
  (IF Truthy(todoData.title) /\ Len(todoData.title) > MaxTitleLen
     THEN {"title"} ELSE {})
  \cup
  (IF Truthy(todoData.description) /\ Len(todoData.description) > MaxDescriptionLen
     THEN {"description"} ELSE {})

validateTodo(todoData) ==
  [isValid |-> validateTodoErrors(todoData) = {},
   errors  |-> validateTodoErrors(todoData)]

(* ------------------------ TodoForm: the yup schema -------------------- *)
\* the fields of the form the schema rejects
schemaErrors(data) ==
  (IF data.title = <<>> \/ Len(data.title) < 1 \/ Len(data.title) > MaxTitleLen
     THEN {"title"} ELSE {})
  \cup
  (IF Len(data.description) > MaxDescriptionLen THEN {"description"} ELSE {})

schemaValid(data) == schemaErrors(data) = {}

(* ------------------ apiService: the response interceptor -------------- *)
\* An axios error: response says whether the server answered (then status
\* and the response body's detail and message count), request whether the
\* request was sent, message is error.message ("" when absent).  A detail is
\* absent ("none"), a string, or an array of {loc, msg} items.
NoDetail == [kind |-> "none", text |-> "", items |-> <<>>]

NullCode == "<null>"

\* data?.detail is truthy
DetailTruthy(d) == d.kind # "none" /\ ~(d.kind = "string" /\ d.text = "")

RECURSIVE join(_, _)
join(strs, sep) ==
  IF strs = <<>> THEN ""
  ELSE IF Len(strs) = 1 THEN strs[1]
  ELSE strs[1] \o sep \o join(Tail(strs), sep)

\* `${err.loc?.join('.') || 'Campo'}: ${err.msg}`
FormatDetailItem(item) ==
  (IF join(item.loc, ".") # "" THEN join(item.loc, ".") ELSE "Campo")
    \o ": " \o item.msg

FormatDetail(items) ==
  join([i \in 1..Len(items) |-> FormatDetailItem(items[i])], ", ")

FirstNonEmpty(a, b, c) == IF a # "" THEN a ELSE IF b # "" THEN b ELSE c

\* responseInterceptor without the cases by status: the status of the
\* response or 500, the message of the body or of the error
responseInterceptor_plain(error) ==
  [message |-> FirstNonEmpty(IF error.response THEN error.dataMessage ELSE "",
                             error.message, "Something went wrong"),
   status  |-> IF error.response THEN error.status ELSE 500,
   code    |-> NullCode,
   details |-> NoDetail]

\* the rejected-handler of the response interceptor: error |-> apiError
responseInterceptor(error) ==
  LET base == [message |-> "Error desconocido", status |-> 500,
               code |-> NullCode, details |-> NoDetail]
  IN
  IF error.response THEN
    IF error.status = 404 THEN
      [base EXCEPT !.message = "Todo no encontrado", !.status = 404]
    ELSE IF error.status = 422 THEN
      LET v == [base EXCEPT !.message = "Datos inválidos", !.status = 422,
                            !.code = "VALIDATION_ERROR"]
      IN IF DetailTruthy(error.detail) THEN
           [v EXCEPT !.details = error.detail,
                     !.message = IF error.detail.kind = "array"
                                   THEN FormatDetail(error.detail.items)
                                 ELSE IF error.detail.kind = "string"
                                   THEN error.detail.text
                                 ELSE v.message]
         ELSE v
    ELSE IF error.status >= 500 THEN
      [base EXCEPT !.message = "Error del servidor", !.status = error.status]
    ELSE
      [base EXCEPT !.message = FirstNonEmpty(error.dataMessage, error.message,
                                             "Error en la petición"),
                   !.status = error.status]
  ELSE IF error.request THEN
    [base EXCEPT !.message = "Error de conexión. Verifica que el servidor esté ejecutándose en http://localhost:8000",
                 !.status = 0, !.code = "NETWORK_ERROR"]
  ELSE
    [base EXCEPT !.message = FirstNonEmpty(error.message, "", "Error inesperado")]

\* the axios error of a response with the given status and an empty body
HttpError(httpStatus) ==
  [response |-> TRUE, status |-> httpStatus, detail |-> NoDetail,
   dataMessage |-> "", request |-> TRUE,
   message |-> "Request failed with status code"]

\* the axios error of a request that got no response
NetworkError ==
  [response |-> FALSE, status |-> 0, detail |-> NoDetail,
   dataMessage |-> "", request |-> TRUE, message |-> "Network Error"]

NoError == [message |-> "", status |-> 200, code |-> NullCode, details |-> NoDetail]

(* --------------- dateUtils.formatRelativeDateFromAPI ------------------- *)
\* A timestamp string is a sequence of units: a date with a time ("T0" is
\* 2025-09-24T00:00:00, "T90" ninety minutes later), the suffix "Z", an
\* offset ("+01:00") or another character ("x").  A time is a number of
\* minutes since 2025-09-24T00:00:00Z.
DateTimes == {"T0", "T90"}

Units == DateTimes \cup {"Z", "+01:00", "x"}

\* the minutes since midnight that the fields of a date with a time give
WallClock(u) == IF u = "T90" THEN 90 ELSE 0

InvalidDate == [valid |-> FALSE, time |-> 0]

\* new Date(string) where the local time is tz minutes ahead of UTC: a date
\* with a time and no offset is local time
NewDate(str, tz) ==
  IF Len(str) = 1 /\ str[1] \in DateTimes THEN
    [valid |-> TRUE, time |-> WallClock(str[1]) - tz]
  ELSE IF Len(str) = 2 /\ str[1] \in DateTimes /\ str[2] = "Z" THEN
    [valid |-> TRUE, time |-> WallClock(str[1])]
  ELSE IF Len(str) = 2 /\ str[1] \in DateTimes /\ str[2] = "+01:00" THEN
    [valid |-> TRUE, time |-> WallClock(str[1]) - 60]
  ELSE InvalidDate

\* String.prototype.endsWith
endsWith(str, u) == Len(str) > 0 /\ str[Len(str)] = u

\* date-fns formatDistance(date, baseDate, {addSuffix: true, locale: es})
formatDistance(time, baseTime) ==
  LET m == IF time < baseTime THEN baseTime - time ELSE time - baseTime
      words ==
        IF m < 1 THEN "menos de un minuto"
        ELSE IF m = 1 THEN "1 minuto"
        ELSE IF m < 45 THEN ToString(m) \o " minutos"
        ELSE IF m < 90 THEN "alrededor de 1 hora"
        ELSE IF m < 1440 THEN
          "alrededor de " \o ToString((m + 30) \div 60) \o " horas"
        ELSE IF m < 2520 THEN "1 día"
        ELSE ToString((m + 720) \div 1440) \o " días"
  IN IF time > baseTime THEN "en " \o words ELSE "hace " \o words

\* formatRelativeDateFromAPI without the suffix: new Date(date)
formatRelativeDateFromAPI_local(date, tz, current) ==
  IF date.kind = "null" \/ (date.kind = "string" /\ date.str = <<>>) THEN ""
  ELSE
    LET dateObj == IF date.kind = "string" THEN NewDate(date.str, tz)
                   ELSE date.obj
    IN
    IF date.kind \notin {"string", "Date"} THEN ""
    ELSE IF ~dateObj.valid THEN ""
    ELSE formatDistance(dateObj.time, current)

\* formatRelativeDateFromAPI(date) in a browser whose local time is tz minutes
\* ahead of UTC, at the time current.  A date is null, a string, a Date
\* object or a value of another type, whose getTime is not a function: the
\* TypeError is caught.
formatRelativeDateFromAPI(date, tz, current) ==
  IF date.kind = "null" \/ (date.kind = "string" /\ date.str = <<>>) THEN ""
  ELSE
    LET utcDateString == IF endsWith(date.str, "Z") THEN date.str
                         ELSE Append(date.str, "Z")
        dateObj == IF date.kind = "string" THEN NewDate(utcDateString, tz)
                   ELSE date.obj
    IN
    IF date.kind \notin {"string", "Date"} THEN ""
    ELSE IF ~dateObj.valid THEN ""
    ELSE formatDistance(dateObj.time, current)

(* ------------------------------ data ----------------------------------- *)
NullValue == "<null>"

Statuses == {"all", "completed", "pending"}

\* the fields of filters that fetchTodos reads
DefaultFilters == [status |-> "all", search |-> <<>>]

\* what the user types into the search box
SearchTerms == {<<>>, <<"A", "b">>}

\* the todo with the given id that is on the server when the page is mounted
SeedTodo(i) ==
  IF i % 3 = 1 THEN
    [id |-> i, title |-> <<"b", "a", "B">>, description |-> <<>>,
     completed |-> FALSE]
  ELSE IF i % 3 = 2 THEN
    [id |-> i, title |-> <<"b">>, description |-> <<"a", "b">>,
     completed |-> TRUE]
  ELSE
    [id |-> i, title |-> <<"a">>, description |-> Null, completed |-> FALSE]

SeedDb(n) == [i \in 1..n |-> SeedTodo(i)]

\* what the user types into the title and description fields of a form
FormInputs ==
  { [title |-> <<"B">>, description |-> <<"a">>],
    [title |-> <<" ">>, description |-> <<>>],
    [title |-> Rep("a", MaxTitleLen + 1), description |-> <<>>] }

\* the todoData of the direct calls of createTodo and updateTodo
CallInputs ==
  { [title |-> <<"A", "B">>, description |-> Null, completed |-> TRUE] }

EmptyFields == [title |-> <<>>, description |-> <<>>]

NoTodo ==
  [id |-> 0, title |-> <<>>, description |-> <<>>, completed |-> FALSE,
   priority |-> "medium"]

NoData == [title |-> <<>>, description |-> <<>>, completed |-> FALSE]

Ids(list) == {list[i].id : i \in 1..Len(list)}

(* --------------------------- the backend ------------------------------- *)
IndexOfId(list, id) == CHOOSE i \in 1..Len(list) : list[i].id = id

\* POST /todos
ServerCreate(d, nid, body) ==
  Append(d, [id |-> nid, title |-> body.title,
             description |-> body.description, completed |-> body.completed])

\* PUT /todos/{id}
ServerUpdate(d, id, body) ==
  [d EXCEPT ![IndexOfId(d, id)] =
     [id |-> id, title |-> body.title, description |-> body.description,
      completed |-> body.completed]]

\* DELETE /todos/{id}
ServerDelete(d, id) == SelectSeq(d, LAMBDA t : t.id # id)

(* ------------------- useTodos.fetchTodos: the pure part ---------------- *)
\* FastAPI structure to frontend structure
transformTodo(todo) ==
  [id |-> todo.id, title |-> todo.title,
   description |-> OrEmpty(todo.description),
   completed |-> todo.completed, priority |-> "medium"]

transformTodos(todosData) ==
  [i \in 1..Len(todosData) |-> transformTodo(todosData[i])]

filterByStatus(list, f) ==
  IF f.status # "all" THEN
    SelectSeq(list, LAMBDA todo :
      IF f.status = "completed" THEN todo.completed
      ELSE IF f.status = "pending" THEN ~todo.completed
      ELSE TRUE)
  ELSE list

filterBySearch(list, f) ==
  IF Truthy(f.search) THEN
    LET searchTerm == toLowerCase(f.search) IN
    SelectSeq(list, LAMBDA todo :
      \/ includes(toLowerCase(todo.title), searchTerm)
      \/ (Truthy(todo.description)
            /\ includes(toLowerCase(todo.description), searchTerm)))
  ELSE list

filteredTodos(response, f) ==
  filterBySearch(filterByStatus(transformTodos(response), f), f)

Min(a, b) == IF a < b THEN a ELSE b

\* Array.prototype.slice(start, end) with 0 <= start
slice(list, start, end) ==
  IF start >= Len(list) THEN <<>>
  ELSE SubSeq(list, start + 1, Min(end, Len(list)))

paginatedTodos(list, page, size) ==
  slice(list, (page - 1) * size, (page - 1) * size + size)

\* Math.ceil(length / PageSize)
calculatedTotalPages(n, size) == (n + size - 1) \div size

(* ------------------- todoService: the request bodies ------------------- *)
\* todoService.createTodo: the body of POST /todos
createTodoData(todo) ==
  [title |-> todo.title, description |-> OrEmpty(todo.description),
   completed |-> FALSE]

\* todoService.updateTodo: the body of PUT /todos/{id}
updateTodoData(todo) ==
  [title |-> todo.title, description |-> OrEmpty(todo.description),
   completed |-> todo.completed]

\* todoService.toggleTodo: the body of its PUT, from the todo its GET returned
updatedTodo(todo) ==
  [title |-> todo.title, description |-> OrEmpty(todo.description),
   completed |-> ~todo.completed]

\* TodoForm.handleFormSubmit: submitData of the create form
createSubmitData(data) ==
  [title |-> data.title, description |-> OrEmpty(data.description)]

\* TodoForm.handleFormSubmit: submitData of the edit form showing todo
editSubmitData(data, todo) ==
  [title |-> data.title, description |-> OrEmpty(data.description),
   completed |-> todo.completed]

(* ------------------------------ state ---------------------------------- *)
VARIABLES
  db, nextId,                    \* the backend: the todos in server order
  todos, loading, error, total, totalPages, currentPage, filters,  \* useTodos
  showForm, editingTodo,         \* TodoPage
  createFields, editFields,      \* the field values of the two TodoForms
  toggling, deleting,            \* ids of the mounted TodoItems whose flag is set
  tasks,                         \* the asynchronous operations in flight
  events, edits,                 \* user events so far, of the two kinds
  failures,                      \* failed requests so far
  lastFetch,                     \* the last fetchTodos that completed successfully
  settled,                       \* how the last mutation operation settled
  dialog,                        \* the last window.confirm dialog and its answer
  arg, result,                   \* a function of the services called on its own:
                                 \* its argument and, once it returned, its result
  status, lastCheck,             \* HealthCheck
  healthMounted, interval,       \* HealthCheck is mounted; its setInterval timer
  checks,                        \* the calls of checkHealth awaiting healthCheck()
  now, ticks,                    \* the time in ms since the mount; ticks so far
  healthLog                      \* the outcomes of the checks that completed

server == <<db, nextId>>
hook == <<todos, loading, error, total, totalPages, currentPage, filters>>
page == <<showForm, editingTodo, createFields, editFields>>
items == <<toggling, deleting>>
hist == <<lastFetch, settled, dialog>>
call == <<arg, result>>
health ==
  <<status, lastCheck, healthMounted, interval, checks, now, ticks, healthLog>>
vars ==
  <<server, hook, page, items, tasks, events, edits, failures, hist, call,
    health>>

Slots == 1..MaxTasks

Idle ==
  [kind |-> "idle", phase |-> "-", id |-> 0, data |-> NoData,
   cf |-> DefaultFilters, cp |-> 0, st |-> "-", body |-> <<>>,
   err |-> NoError, origin |-> "-", mounted |-> FALSE, attempts |-> 0]

\* a task that has just sent its first request
NewTask(kind, phase, id, data, origin) ==
  [Idle EXCEPT !.kind = kind, !.phase = phase, !.id = id, !.data = data,
               !.cf = filters, !.cp = currentPage, !.st = "sent",
               !.origin = origin, !.mounted = (origin = "item"),
               !.attempts = 1]

FreeSlots == {s \in Slots : tasks[s].kind = "idle"}

FreeSlot == CHOOSE s \in FreeSlots : \A r \in FreeSlots : s <= r

\* the HTTP request a task has in flight; attempts is the number of times
\* axios has sent it
Request(t) ==
  IF t.phase = "fetch" THEN
    [method |-> "GET", path |-> "/todos", id |-> 0, body |-> NoData]
  ELSE IF t.phase = "get" THEN
    [method |-> "GET", path |-> "/todos/{id}", id |-> t.id, body |-> NoData]
  ELSE IF t.kind = "create" THEN
    [method |-> "POST", path |-> "/todos", id |-> 0, body |-> t.data]
  ELSE IF t.kind = "delete" THEN
    [method |-> "DELETE", path |-> "/todos/{id}", id |-> t.id, body |-> NoData]
  ELSE
    [method |-> "PUT", path |-> "/todos/{id}", id |-> t.id, body |-> t.data]

NoFetch == [done |-> FALSE, response |-> <<>>, cf |-> DefaultFilters, cp |-> 0]

NoSettle == [kind |-> "none", id |-> 0, outcome |-> "-", err |-> NoError]

\* n dialogs have been shown so far, the last one for todo id
NoDialog == [n |-> 0, id |-> 0, answer |-> FALSE]

\* the timeout of the axios instance of apiService, in ms
timeout == 10000

\* parseInt(import.meta.env.VITE_HEALTH_CHECK_INTERVAL) || 30000
healthCheckInterval == 30000

\* HealthCheck has just been mounted: the effect has called checkHealth, whose
\* GET /health is in flight, and has set the interval
HealthCheckMounted ==
  /\ status = "checking"
  /\ lastCheck = <<>>
  /\ healthMounted = TRUE
  /\ interval = [active |-> TRUE, due |-> healthCheckInterval]
  /\ checks = <<[n |-> 1, sent |-> 0, st |-> "sent"]>>
  /\ now = 0
  /\ ticks = 0
  /\ healthLog = <<>>

\* TodoPage has just been mounted: the effect has started the first fetchTodos
Mounted ==
  /\ HealthCheckMounted
  /\ db = SeedDb(MaxTodos)
  /\ nextId = Len(db) + 1
  /\ todos = <<>>
  /\ loading = TRUE
  /\ error = NullValue
  /\ total = 0
  /\ totalPages = 0
  /\ currentPage = 1
  /\ filters = DefaultFilters
  /\ showForm = FALSE
  /\ editingTodo = NoTodo
  /\ createFields = EmptyFields
  /\ editFields = EmptyFields
  /\ toggling = {}
  /\ deleting = {}
  /\ tasks = [s \in Slots |->
                IF s = 1 THEN
                  [Idle EXCEPT !.kind = "fetch", !.phase = "fetch", !.cp = 1,
                               !.st = "sent", !.origin = "effect",
                               !.attempts = 1]
                ELSE Idle]
  /\ events = 0
  /\ edits = 0
  /\ failures = 0
  /\ lastFetch = NoFetch
  /\ settled = NoSettle
  /\ dialog = NoDialog

Init ==
  /\ Mounted
  /\ arg = <<>>
  /\ result = <<>>

(* --------------------------- rendering --------------------------------- *)
\* TodoList renders the items only while not loading; a TodoItem keeps its
\* state only as long as an item with its key stays rendered.
Unmounted(ts) == [s \in Slots |-> [ts[s] EXCEPT !.mounted = FALSE]]

Remount(ts, l, list) ==
  [s \in Slots |->
     [ts[s] EXCEPT !.mounted = ts[s].mounted /\ ~l /\ ts[s].id \in Ids(list)]]

Kept(flags, l, list) == IF l THEN {} ELSE flags \cap Ids(list)

\* useForm's defaultValues when a TodoForm is mounted for todo
defaultValues(todo) ==
  [title |-> OrEmpty(todo.title), description |-> OrEmpty(todo.description)]

Max(a, b) == IF a > b THEN a ELSE b

\* Pagination.getVisiblePages, without the dots
getVisiblePages ==
  {1} \cup (Max(2, currentPage - 2)..Min(totalPages - 1, currentPage + 2))
      \cup {totalPages}

\* the pages the buttons of Pagination lead to
PageButtons ==
  (IF currentPage # 1 THEN {currentPage - 1} ELSE {})
    \cup (IF currentPage # totalPages THEN {currentPage + 1} ELSE {})
    \cup getVisiblePages

hasActiveFilters == Truthy(filters.search) \/ filters.status # "all"

\* TodoPage: the numbers on the cards Completados and Pendientes
completedCount == Len(SelectSeq(todos, LAMBDA todo : todo.completed))

pendingCount == Len(SelectSeq(todos, LAMBDA todo : ~todo.completed))

(* --------------------------- user events ------------------------------- *)
UserEvent ==
  /\ events < MaxEvents
  /\ events' = events + 1
  /\ UNCHANGED <<edits, failures, call, health>>

LocalEvent ==
  /\ edits < MaxEdits
  /\ edits' = edits + 1
  /\ UNCHANGED <<events, failures, call, health>>

\* useTodos.createTodo: await todoService.createTodo(todoData)
createTodo(todoData, origin) ==
  /\ FreeSlots # {}
  /\ tasks' = [tasks EXCEPT ![FreeSlot] =
       NewTask("create", "mut", 0, createTodoData(todoData), origin)]

\* useTodos.updateTodo: await todoService.updateTodo(id, todoData)
updateTodo(id, todoData, origin) ==
  /\ FreeSlots # {}
  /\ tasks' = [tasks EXCEPT ![FreeSlot] =
       NewTask("update", "mut", id, updateTodoData(todoData), origin)]

\* useTodos.deleteTodo: await todoService.deleteTodo(id)
deleteTodo(id, origin) ==
  /\ FreeSlots # {}
  /\ tasks' = [tasks EXCEPT ![FreeSlot] =
       NewTask("delete", "mut", id, NoData, origin)]

\* useTodos.toggleTodo: await todoService.toggleTodo(id), which first gets
\* the todo
toggleTodo(id, origin) ==
  /\ FreeSlots # {}
  /\ tasks' = [tasks EXCEPT ![FreeSlot] =
       NewTask("toggle", "get", id, NoData, origin)]

\* the "Nuevo Todo" button of TodoPage
ClickNewTodo ==
  /\ LocalEvent
  /\ showForm' = ~showForm
  /\ editingTodo' = NoTodo
  /\ createFields' = EmptyFields
  /\ editFields' = EmptyFields
  /\ UNCHANGED <<server, hook, items, tasks, hist>>

TypeCreate(input) ==
  /\ LocalEvent
  /\ showForm
  /\ input # createFields
  /\ createFields' = input
  /\ UNCHANGED <<server, hook, showForm, editingTodo, editFields,
                 items, tasks, hist>>

\* TodoForm.handleFormSubmit of the create form -> handleCreateTodo -> createTodo
SubmitCreate ==
  /\ UserEvent
  /\ showForm /\ ~loading
  /\ schemaValid(createFields)
  /\ createTodo(createSubmitData(createFields), "createForm")
  /\ UNCHANGED <<server, hook, page, items, hist>>

\* onCancel of the create form
CancelCreate ==
  /\ LocalEvent
  /\ showForm
  /\ showForm' = FALSE
  /\ createFields' = EmptyFields
  /\ UNCHANGED <<server, hook, editingTodo, editFields, items,
                 tasks, hist>>

\* the edit button of a TodoItem -> handleStartEdit
ClickEdit(i) ==
  /\ LocalEvent
  /\ ~loading
  /\ i \in 1..Len(todos)
  /\ editingTodo' = todos[i]
  /\ showForm' = FALSE
  /\ createFields' = EmptyFields
  /\ editFields' = IF editingTodo = NoTodo THEN defaultValues(todos[i])
                   ELSE editFields
  /\ UNCHANGED <<server, hook, items, tasks, hist>>

TypeEdit(input) ==
  /\ LocalEvent
  /\ editingTodo # NoTodo
  /\ input # editFields
  /\ editFields' = input
  /\ UNCHANGED <<server, hook, showForm, editingTodo, createFields,
                 items, tasks, hist>>

\* TodoForm.handleFormSubmit of the edit form -> handleEditTodo -> updateTodo
SubmitEdit ==
  /\ UserEvent
  /\ editingTodo # NoTodo /\ ~loading
  /\ schemaValid(editFields)
  /\ updateTodo(editingTodo.id, editSubmitData(editFields, editingTodo),
                "editForm")
  /\ UNCHANGED <<server, hook, page, items, hist>>

\* handleCancelEdit
CancelEdit ==
  /\ LocalEvent
  /\ editingTodo # NoTodo
  /\ editingTodo' = NoTodo
  /\ editFields' = EmptyFields
  /\ UNCHANGED <<server, hook, showForm, createFields, items,
                 tasks, hist>>

\* TodoItem.handleToggle -> toggleTodo
ClickToggle(i) ==
  /\ UserEvent
  /\ ~loading
  /\ i \in 1..Len(todos)
  /\ todos[i].id \notin toggling
  /\ toggling' = toggling \cup {todos[i].id}
  /\ toggleTodo(todos[i].id, "item")
  /\ UNCHANGED <<server, hook, page, deleting, hist>>

\* ClickDelete without the test of the answer: deleteTodo is called anyway
ClickDelete_noConfirm(i, confirmed) ==
  /\ UserEvent
  /\ ~loading
  /\ i \in 1..Len(todos)
  /\ todos[i].id \notin deleting
  /\ dialog' = [n |-> dialog.n + 1, id |-> todos[i].id, answer |-> confirmed]
  /\ deleting' = deleting \cup {todos[i].id}
  /\ deleteTodo(todos[i].id, "item")
  /\ UNCHANGED <<server, hook, page, toggling, lastFetch, settled>>

\* TodoItem.handleDelete -> window.confirm -> deleteTodo
ClickDelete(i, confirmed) ==
  /\ UserEvent
  /\ ~loading
  /\ i \in 1..Len(todos)
  /\ todos[i].id \notin deleting
  /\ dialog' = [n |-> dialog.n + 1, id |-> todos[i].id, answer |-> confirmed]
  /\ IF confirmed THEN
       /\ deleting' = deleting \cup {todos[i].id}
       /\ deleteTodo(todos[i].id, "item")
     ELSE UNCHANGED <<deleting, tasks>>
  /\ UNCHANGED <<server, hook, page, toggling, lastFetch, settled>>

\* a component other than the forms of TodoPage calls createTodo
CallCreate(todoData) ==
  /\ UserEvent
  /\ createTodo(todoData, "direct")
  /\ UNCHANGED <<server, hook, page, items, hist>>

\* a component other than the forms of TodoPage calls updateTodo for a todo
\* of the list
CallUpdate(i, todoData) ==
  /\ UserEvent
  /\ i \in 1..Len(todos)
  /\ updateTodo(todos[i].id, todoData, "direct")
  /\ UNCHANGED <<server, hook, page, items, hist>>

\* the effect that runs fetchTodos when currentPage or filters have changed
EffectFetch(newFilters, newPage) ==
  /\ FreeSlots # {}
  /\ loading' = TRUE
  /\ error' = NullValue
  /\ toggling' = {}
  /\ deleting' = {}
  /\ tasks' = [Unmounted(tasks) EXCEPT ![FreeSlot] =
       [Idle EXCEPT !.kind = "fetch", !.phase = "fetch", !.cf = newFilters,
                    !.cp = newPage, !.st = "sent", !.origin = "effect",
                    !.attempts = 1]]

\* a button of Pagination -> setPage
SetPage(p) ==
  /\ UserEvent
  /\ totalPages > 1
  /\ p \in PageButtons
  /\ currentPage' = p
  /\ IF p # currentPage THEN EffectFetch(filters, p)
     ELSE UNCHANGED <<loading, error, items, tasks>>
  /\ UNCHANGED <<server, todos, total, totalPages, filters, page, hist>>

\* updateFilters whose two state updates are rendered one after the other:
\* the effect runs with the new filters and the page of before
updateFilters_keepPage(newFilters) ==
  /\ filters' = newFilters
  /\ currentPage' = 1
  /\ EffectFetch(newFilters, currentPage)
  /\ UNCHANGED <<server, todos, total, totalPages, page, hist>>

\* useTodos.updateFilters: both state updates are rendered together, then the
\* effect runs
updateFilters(newFilters) ==
  /\ filters' = newFilters
  /\ currentPage' = 1
  /\ EffectFetch(newFilters, 1)
  /\ UNCHANGED <<server, todos, total, totalPages, page, hist>>

\* TodoFilters.handleSearchChange -> handleFiltersChange
SearchChange(term) ==
  /\ UserEvent
  /\ term # filters.search
  /\ updateFilters([filters EXCEPT !.search = term])

\* TodoFilters.handleStatusChange -> handleFiltersChange
StatusChange(value) ==
  /\ UserEvent
  /\ value # filters.status
  /\ updateFilters([filters EXCEPT !.status = value])

\* handleResetFilters
ResetFilters ==
  /\ UserEvent
  /\ hasActiveFilters
  /\ updateFilters(DefaultFilters)

(* --------------------------- the backend acts -------------------------- *)
Answer(s, st, body, err) ==
  tasks' = [tasks EXCEPT ![s].st = st, ![s].body = body, ![s].err = err]

\* the backend handles the request of slot s
ServerHandle(s) ==
  LET t == tasks[s]
      r == Request(t)
  IN
  /\ t.st = "sent"
  /\ IF r.method = "GET" /\ r.path = "/todos" THEN
       /\ Answer(s, "ok", db, NoError)
       /\ UNCHANGED server
     ELSE IF r.method = "POST" THEN
       /\ db' = ServerCreate(db, nextId, r.body)
       /\ nextId' = nextId + 1
       /\ Answer(s, "ok", <<>>, NoError)
     ELSE IF r.id \notin Ids(db) THEN
       /\ Answer(s, "err", <<>>, responseInterceptor(HttpError(404)))
       /\ UNCHANGED server
     ELSE IF r.method = "GET" THEN
       /\ Answer(s, "ok", <<db[IndexOfId(db, r.id)]>>, NoError)
       /\ UNCHANGED server
     ELSE IF r.method = "PUT" THEN
       /\ db' = ServerUpdate(db, r.id, r.body)
       /\ Answer(s, "ok", <<>>, NoError)
       /\ UNCHANGED nextId
     ELSE
       /\ db' = ServerDelete(db, r.id)
       /\ Answer(s, "ok", <<>>, NoError)
       /\ UNCHANGED nextId
  /\ UNCHANGED <<hook, page, items, events, edits, failures, hist, call,
                 health>>

\* the request of slot s fails: the backend answers 500 or does not answer
ServerFail(s, e) ==
  /\ tasks[s].st = "sent"
  /\ failures < MaxFailures
  /\ failures' = failures + 1
  /\ Answer(s, "err", <<>>, responseInterceptor(e))
  /\ UNCHANGED <<server, hook, page, items, events, edits, hist, call,
                 health>>

(* ------------------- the client receives a response -------------------- *)
\* what the caller of a mutation operation does once the operation resolved:
\* handleCreateTodo and the create form close the create form, handleEditTodo
\* and the edit form close the edit form, a TodoItem clears its flag.
CallerResolved(t, l, list) ==
  /\ showForm' = IF t.origin = "createForm" THEN FALSE ELSE showForm
  /\ createFields' = IF t.origin = "createForm" THEN EmptyFields ELSE createFields
  /\ editingTodo' = IF t.origin = "editForm" THEN NoTodo ELSE editingTodo
  /\ editFields' = IF t.origin = "editForm" THEN EmptyFields ELSE editFields
  /\ toggling' = Kept(IF t.mounted /\ t.kind = "toggle"
                        THEN toggling \ {t.id} ELSE toggling, l, list)
  /\ deleting' = Kept(IF t.mounted /\ t.kind = "delete"
                        THEN deleting \ {t.id} ELSE deleting, l, list)

\* fetchTodos got its response: filter, paginate, update the states
FetchSucceeds(s) ==
  LET t == tasks[s]
      filtered == filteredTodos(t.body, t.cf)
      shown == paginatedTodos(filtered, t.cp, PageSize)
  IN
  /\ t.phase = "fetch" /\ t.st = "ok"
  /\ todos' = shown
  /\ total' = Len(filtered)
  /\ totalPages' = calculatedTotalPages(Len(filtered), PageSize)
  /\ loading' = FALSE
  /\ lastFetch' = [done |-> TRUE, response |-> t.body, cf |-> t.cf, cp |-> t.cp]
  /\ CallerResolved(t, loading, shown)
  /\ tasks' = [Remount(tasks, loading, shown) EXCEPT ![s] = Idle]
  /\ settled' = IF t.kind = "fetch" THEN settled
                ELSE [kind |-> t.kind, id |-> t.id, outcome |-> "resolved",
                      err |-> NoError]
  /\ UNCHANGED <<server, error, currentPage, filters, events, edits, failures,
                 dialog, call, health>>

\* FetchFails with a catch block that rethrows the error: the mutation
\* operation that awaits the refetch rejects
FetchFails_rethrow(s) ==
  LET t == tasks[s] IN
  /\ t.phase = "fetch" /\ t.st = "err"
  /\ error' = IF t.err.message # "" THEN t.err.message
              ELSE "Error al cargar los todos"
  /\ loading' = FALSE
  /\ toggling' = Kept(IF t.mounted /\ t.kind = "toggle"
                        THEN toggling \ {t.id} ELSE toggling, loading, todos)
  /\ deleting' = Kept(IF t.mounted /\ t.kind = "delete"
                        THEN deleting \ {t.id} ELSE deleting, loading, todos)
  /\ tasks' = [tasks EXCEPT ![s] = Idle]
  /\ settled' = IF t.kind = "fetch" THEN settled
                ELSE [kind |-> t.kind, id |-> t.id, outcome |-> "rejected",
                      err |-> t.err]
  /\ UNCHANGED <<server, todos, total, totalPages, currentPage,
                 filters, page, events, edits, failures, lastFetch, dialog,
                 call, health>>

\* fetchTodos failed: the catch and finally blocks
FetchFails(s) ==
  LET t == tasks[s] IN
  /\ t.phase = "fetch" /\ t.st = "err"
  /\ error' = IF t.err.message # "" THEN t.err.message
              ELSE "Error al cargar los todos"
  /\ loading' = FALSE
  /\ CallerResolved(t, loading, todos)
  /\ tasks' = [tasks EXCEPT ![s] = Idle]
  /\ settled' = IF t.kind = "fetch" THEN settled
                ELSE [kind |-> t.kind, id |-> t.id, outcome |-> "resolved",
                      err |-> NoError]
  /\ UNCHANGED <<server, todos, total, totalPages, currentPage,
                 filters, events, edits, failures, lastFetch, dialog, call,
                 health>>

\* todoService.toggleTodo got the todo: send the PUT with the opposite state
ToggleGot(s) ==
  LET t == tasks[s] IN
  /\ t.phase = "get" /\ t.st = "ok"
  /\ tasks' = [tasks EXCEPT ![s].phase = "mut", ![s].st = "sent",
                            ![s].data = updatedTodo(t.body[1]),
                            ![s].body = <<>>, ![s].attempts = 1]
  /\ UNCHANGED <<server, hook, page, items, events, edits, failures, hist,
                 call, health>>

\* MutationSucceeds without the refetch: the operation resolves at once
MutationSucceeds_noRefetch(s) ==
  LET t == tasks[s] IN
  /\ t.phase = "mut" /\ t.st = "ok"
  /\ CallerResolved(t, loading, todos)
  /\ tasks' = [tasks EXCEPT ![s] = Idle]
  /\ settled' = [kind |-> t.kind, id |-> t.id, outcome |-> "resolved",
                 err |-> NoError]
  /\ UNCHANGED <<server, hook, events, edits, failures, lastFetch, dialog,
                 call, health>>

\* the request of a mutation operation succeeded: await fetchTodos()
MutationSucceeds(s) ==
  LET t == tasks[s] IN
  /\ t.phase = "mut" /\ t.st = "ok"
  /\ loading' = TRUE
  /\ error' = NullValue
  /\ toggling' = {}
  /\ deleting' = {}
  /\ tasks' = [Unmounted(tasks) EXCEPT ![s].phase = "fetch", ![s].st = "sent",
                                       ![s].mounted = FALSE,
                                       ![s].attempts = 1]
  /\ UNCHANGED <<server, todos, total, totalPages, currentPage,
                 filters, page, events, edits, failures, hist, call,
                 health>>

\* MutationFails with the refetch in a finally block
MutationFails_refetch(s) ==
  LET t == tasks[s] IN
  /\ t.phase \in {"get", "mut"} /\ t.st = "err"
  /\ loading' = TRUE
  /\ error' = NullValue
  /\ toggling' = {}
  /\ deleting' = {}
  /\ tasks' = [Unmounted(tasks) EXCEPT ![s].phase = "fetch", ![s].st = "sent",
                                       ![s].mounted = FALSE,
                                       ![s].attempts = 1]
  /\ settled' = [kind |-> t.kind, id |-> t.id, outcome |-> "rejected",
                 err |-> t.err]
  /\ UNCHANGED <<server, todos, total, totalPages, currentPage,
                 filters, page, events, edits, failures, lastFetch, dialog,
                 call, health>>

\* MutationFails with onCancel in a finally block of handleFormSubmit: the
\* form is closed also when the operation rejects
MutationFails_closeForm(s) ==
  LET t == tasks[s] IN
  /\ t.phase \in {"get", "mut"} /\ t.st = "err"
  /\ showForm' = IF t.origin = "createForm" THEN FALSE ELSE showForm
  /\ createFields' = IF t.origin = "createForm" THEN EmptyFields
                     ELSE createFields
  /\ editingTodo' = IF t.origin = "editForm" THEN NoTodo ELSE editingTodo
  /\ editFields' = IF t.origin = "editForm" THEN EmptyFields ELSE editFields
  /\ toggling' = IF t.mounted /\ t.kind = "toggle" THEN toggling \ {t.id}
                 ELSE toggling
  /\ deleting' = IF t.mounted /\ t.kind = "delete" THEN deleting \ {t.id}
                 ELSE deleting
  /\ tasks' = [tasks EXCEPT ![s] = Idle]
  /\ settled' = [kind |-> t.kind, id |-> t.id, outcome |-> "rejected",
                 err |-> t.err]
  /\ UNCHANGED <<server, hook, events, edits, failures, lastFetch, dialog,
                 call, health>>

\* a request of a mutation operation failed: toast the error and rethrow it
MutationFails(s) ==
  LET t == tasks[s] IN
  /\ t.phase \in {"get", "mut"} /\ t.st = "err"
  /\ toggling' = IF t.mounted /\ t.kind = "toggle" THEN toggling \ {t.id}
                 ELSE toggling
  /\ deleting' = IF t.mounted /\ t.kind = "delete" THEN deleting \ {t.id}
                 ELSE deleting
  /\ tasks' = [tasks EXCEPT ![s] = Idle]
  /\ settled' = [kind |-> t.kind, id |-> t.id, outcome |-> "rejected",
                 err |-> t.err]
  /\ UNCHANGED <<server, hook, page, events, edits, failures, lastFetch,
                 dialog, call, health>>

(* ------------------------------ HealthCheck ---------------------------- *)
app == <<server, hook, page, items, tasks, events, edits, failures, hist, call>>

\* checkHealth up to its await: setStatus('checking') and GET /health
checkHealth(n) ==
  /\ status' = IF healthMounted THEN "checking" ELSE status
  /\ checks' = Append(checks, [n |-> n, sent |-> now, st |-> "sent"])

\* the interval fires
HealthTick ==
  /\ interval.active /\ now = interval.due
  /\ ticks < MaxTicks
  /\ ticks' = ticks + 1
  /\ interval' = [interval EXCEPT !.due = now + healthCheckInterval]
  /\ checkHealth(ticks + 2)
  /\ UNCHANGED <<lastCheck, healthMounted, now, healthLog, app>>

\* GET /health of check k is answered ("ok"), or it fails or runs into the
\* timeout ("err")
HealthAnswer(k, st) ==
  /\ k \in 1..Len(checks)
  /\ checks[k].st = "sent"
  /\ checks' = [checks EXCEPT ![k].st = st]
  /\ UNCHANGED <<status, lastCheck, healthMounted, interval, now, ticks,
                 healthLog, app>>

\* checkHealth after its await: the rest of the try block or the catch block;
\* the setters of an unmounted component do nothing
HealthDone(k) ==
  /\ k \in 1..Len(checks)
  /\ checks[k].st \in {"ok", "err"}
  /\ LET outcome == IF checks[k].st = "ok" THEN "healthy" ELSE "error" IN
       /\ status' = IF healthMounted THEN outcome ELSE status
       /\ lastCheck' = IF healthMounted THEN <<now>> ELSE lastCheck
       /\ healthLog' = Append(healthLog, outcome)
  /\ checks' = [i \in 1..Len(checks) - 1 |->
                  IF i < k THEN checks[i] ELSE checks[i + 1]]
  /\ UNCHANGED <<healthMounted, interval, now, ticks, app>>

\* the times at which a timer fires: the interval, the timeout of a request
Deadlines ==
  (IF interval.active THEN {interval.due} ELSE {})
    \cup {checks[k].sent + timeout : k \in 1..Len(checks)}

\* time passes up to the next deadline; a response that has arrived is
\* handled first
TimePasses ==
  /\ Deadlines # {}
  /\ \A k \in 1..Len(checks) : checks[k].st = "sent"
  /\ \A d \in Deadlines : d > now
  /\ now' = CHOOSE d \in Deadlines : \A e \in Deadlines : d <= e
  /\ UNCHANGED <<status, lastCheck, healthMounted, interval, checks, ticks,
                 healthLog, app>>

\* HealthUnmount without the cleanup of the effect: the interval stays set
HealthUnmount_keepInterval ==
  /\ healthMounted
  /\ healthMounted' = FALSE
  /\ UNCHANGED <<status, lastCheck, interval, checks, now, ticks, healthLog,
                 app>>

\* HealthCheck is unmounted: the cleanup of the effect clears the interval
HealthUnmount ==
  /\ healthMounted
  /\ healthMounted' = FALSE
  /\ interval' = [interval EXCEPT !.active = FALSE]
  /\ UNCHANGED <<status, lastCheck, checks, now, ticks, healthLog, app>>

HealthNext ==
  \/ HealthTick
  \/ \E k \in 1..MaxTicks + 1, st \in {"ok", "err"} : HealthAnswer(k, st)
  \/ \E k \in 1..MaxTicks + 1 : HealthDone(k)
  \/ TimePasses
  \/ HealthUnmount

SpecHealth == Init /\ [][HealthNext]_vars

(* --------------------------- specification ----------------------------- *)
Next ==
  \/ ClickNewTodo
  \/ \E input \in FormInputs : TypeCreate(input)
  \/ SubmitCreate
  \/ CancelCreate
  \/ \E i \in 1..MaxTodos + MaxEvents : ClickEdit(i)
  \/ \E input \in FormInputs : TypeEdit(input)
  \/ SubmitEdit
  \/ CancelEdit
  \/ \E i \in 1..MaxTodos + MaxEvents : ClickToggle(i)
  \/ \E i \in 1..MaxTodos + MaxEvents, c \in BOOLEAN : ClickDelete(i, c)
  \/ \E p \in 1..MaxTodos + MaxEvents : SetPage(p)
  \/ \E term \in SearchTerms : SearchChange(term)
  \/ \E value \in Statuses : StatusChange(value)
  \/ ResetFilters
  \/ \E s \in Slots : ServerHandle(s)
  \/ \E s \in Slots, e \in {HttpError(500), NetworkError} : ServerFail(s, e)
  \/ \E s \in Slots : FetchSucceeds(s)
  \/ \E s \in Slots : FetchFails(s)
  \/ \E s \in Slots : ToggleGot(s)
  \/ \E s \in Slots : MutationSucceeds(s)
  \/ \E s \in Slots : MutationFails(s)

Spec == Init /\ [][Next]_vars

\* the hook on its own: its operations are called directly, the forms of
\* TodoPage stay closed
HookEvent == events < MaxCalls

HookNext ==
  \/ \E d \in CallInputs : HookEvent /\ CallCreate(d)
  \/ \E i \in 1..MaxTodos + MaxEvents, d \in CallInputs :
       HookEvent /\ CallUpdate(i, d)
  \/ \E i \in 1..MaxTodos + MaxEvents : HookEvent /\ ClickToggle(i)
  \/ \E i \in 1..MaxTodos + MaxEvents, c \in BOOLEAN :
       HookEvent /\ ClickDelete(i, c)
  \/ \E p \in 1..MaxTodos + MaxEvents : HookEvent /\ SetPage(p)
  \/ \E term \in SearchTerms : HookEvent /\ SearchChange(term)
  \/ \E value \in Statuses : HookEvent /\ StatusChange(value)
  \/ \E s \in Slots : ServerHandle(s)
  \/ \E s \in Slots, e \in {HttpError(500), NetworkError} : ServerFail(s, e)
  \/ \E s \in Slots : FetchSucceeds(s)
  \/ \E s \in Slots : FetchFails(s)
  \/ \E s \in Slots : ToggleGot(s)
  \/ \E s \in Slots : MutationSucceeds(s)
  \/ \E s \in Slots : MutationFails(s)

SpecHook == Init /\ [][HookNext]_vars

\* the hook under page and filter changes only
MoveEvent == events < MaxMoves

MoveNext ==
  \/ \E p \in 1..MaxTodos + MaxEvents : MoveEvent /\ SetPage(p)
  \/ \E term \in SearchTerms : MoveEvent /\ SearchChange(term)
  \/ \E value \in Statuses : MoveEvent /\ StatusChange(value)
  \/ MoveEvent /\ ResetFilters
  \/ \E s \in Slots : ServerHandle(s)
  \/ \E s \in Slots, e \in {HttpError(500), NetworkError} : ServerFail(s, e)
  \/ \E s \in Slots : FetchSucceeds(s)
  \/ \E s \in Slots : FetchFails(s)

SpecMove == Init /\ [][MoveNext]_vars

\* the page with only its forms: the create form and the edit form are
\* opened, filled in, submitted and cancelled
FormEvent == events < MaxSubmits

FormNext ==
  \/ ClickNewTodo
  \/ \E input \in FormInputs : TypeCreate(input)
  \/ FormEvent /\ SubmitCreate
  \/ CancelCreate
  \/ \E i \in 1..MaxTodos + MaxEvents : ClickEdit(i)
  \/ \E input \in FormInputs : TypeEdit(input)
  \/ FormEvent /\ SubmitEdit
  \/ CancelEdit
  \/ \E s \in Slots : ServerHandle(s)
  \/ \E s \in Slots, e \in {HttpError(500), NetworkError} : ServerFail(s, e)
  \/ \E s \in Slots : FetchSucceeds(s)
  \/ \E s \in Slots : FetchFails(s)
  \/ \E s \in Slots : MutationSucceeds(s)
  \/ \E s \in Slots : MutationFails(s)

SpecForm == Init /\ [][FormNext]_vars

(* ------------------------ the claims on the hook ----------------------- *)
MutationKinds == {"create", "update", "delete", "toggle"}

\* GET /todos
FetchRequest == [method |-> "GET", path |-> "/todos", id |-> 0, body |-> NoData]

\* the task of slot s takes a step of its own
Steps(s) ==
  \/ tasks'[s].kind # tasks[s].kind
  \/ tasks'[s].phase # tasks[s].phase
  \/ tasks'[s].st # tasks[s].st

\* the fetchTodos of slot s receives its response and completes
FetchCompletes(s) ==
  tasks[s].phase = "fetch" /\ tasks[s].st = "ok" /\ Steps(s)

\* ... while no other fetchTodos is in flight
CompletesAlone(s) ==
  FetchCompletes(s) /\ \A r \in Slots \ {s} : tasks[r].phase # "fetch"

\* todos, total and totalPages are set from the response of slot s
FetchApplied(s) ==
  LET t == tasks[s] IN
  /\ todos' = paginatedTodos(filteredTodos(t.body, t.cf), t.cp, PageSize)
  /\ total' = Len(filteredTodos(t.body, t.cf))
  /\ totalPages' = calculatedTotalPages(total', PageSize)

StatusMatches(todo, f) ==
  \/ f.status = "all"
  \/ f.status = "completed" /\ todo.completed
  \/ f.status = "pending" /\ ~todo.completed

\* sub occurs in str when upper and lower case are not told apart
ContainsIgnoringCase(str, sub) ==
  \E i \in 1..(Len(str) - Len(sub) + 1) :
    \A j \in 1..Len(sub) : LowerChar(str[i + j - 1]) = LowerChar(sub[j])

\* the title or the description of the todo contains the search term
SearchMatches(todo, f) ==
  \/ f.search = <<>>
  \/ ContainsIgnoringCase(todo.title, f.search)
  \/ todo.description # Null /\ ContainsIgnoringCase(todo.description, f.search)

\* the todos of a response that match the filters, in server order
MatchingTodos(response, f) ==
  SelectSeq(response, LAMBDA todo : StatusMatches(todo, f) /\ SearchMatches(todo, f))

\* C3: when a fetchTodos completes successfully with no other fetch in
\* flight, total counts exactly the todos of the response that match the
\* active filters of the hook, and every displayed todo is one of them.
C3_TotalCountsMatching ==
  [][ \A s \in Slots :
        CompletesAlone(s)
          => /\ total' = Len(MatchingTodos(tasks[s].body, filters'))
             /\ Ids(todos') \subseteq Ids(MatchingTodos(tasks[s].body, filters'))
    ]_vars

\* page p of a list: the items from (p - 1) * PageSize up to p * PageSize
PageOf(list, p) ==
  [i \in 1..(Min(p * PageSize, Len(list)) - (p - 1) * PageSize) |->
     list[(p - 1) * PageSize + i]]

\* Math.ceil(n / d)
Ceil(n, d) == CHOOSE k \in 0..n : k * d >= n /\ (k - 1) * d < n

RECURSIVE Pages(_, _)
\* the pages 1..n of a list, one after the other
Pages(list, n) == IF n = 0 THEN <<>> ELSE Pages(list, n - 1) \o PageOf(list, n)

\* C4: after a successful fetchTodos (stated for one that completes with
\* no other fetch in flight), totalPages = ceil(total / pageSize), the
\* displayed todos are the slice of the filtered list that belongs to
\* currentPage, at most pageSize of them, and the pages 1..totalPages follow
\* one another without overlap and make up the filtered list.
C4_Pagination ==
  [][ \A s \in Slots :
        CompletesAlone(s) =>
          LET list == transformTodos(MatchingTodos(tasks[s].body, tasks[s].cf))
          IN
          /\ totalPages' = Ceil(total', PageSize)
          /\ todos' = PageOf(list, currentPage')
          /\ Len(todos') <= PageSize
          /\ Pages(list, totalPages') = list
    ]_vars

\* C2: every POST /todos and PUT /todos/{id} request the client sends
\* carries a body that validateTodo accepts.
C2_BodiesValid ==
  \A s \in Slots :
    (tasks[s].st = "sent" /\ Request(tasks[s]).method \in {"POST", "PUT"})
      => validateTodo(Request(tasks[s]).body).isValid

\* the displayed list shows the change the mutation operation t asks for
Reflected(t) ==
  IF t.kind = "delete" THEN t.id \notin Ids(todos)
  ELSE IF t.kind = "create" THEN
    \E i \in 1..Len(todos) : todos[i].title = t.data.title
  ELSE IF t.kind = "update" THEN
    \A i \in 1..Len(todos) :
      todos[i].id = t.id =>
        (todos[i].title = t.data.title
           /\ todos[i].description = t.data.description)
  ELSE
    \A i \in 1..Len(todos) :
      (todos[i].id = t.id /\ t.phase = "mut")
        => todos[i].completed = t.data.completed

\* C6: when createTodo, updateTodo, deleteTodo or toggleTodo has been invoked
\* and the server has not yet responded to its request, the displayed list
\* already reflects the change.
C6_OptimisticUpdate ==
  \A s \in Slots :
    (tasks[s].kind \in MutationKinds /\ tasks[s].phase \in {"get", "mut"}
       /\ tasks[s].st = "sent")
      => Reflected(tasks[s])

\* C7: every request of toggleTodo is PATCH /todos/{id}/toggle; creation
\* uses POST /todos, update PUT /todos/{id}, deletion DELETE /todos/{id}.
C7_ToggleIsOnePatch ==
  \A s \in Slots :
    LET t == tasks[s]
        r == Request(t)
    IN
    (t.kind \in MutationKinds /\ t.phase \in {"get", "mut"} /\ t.st = "sent")
      => /\ t.kind = "toggle"
              => (r.method = "PATCH" /\ r.path = "/todos/{id}/toggle")
         /\ t.kind = "create" => (r.method = "POST" /\ r.path = "/todos")
         /\ t.kind = "update" => (r.method = "PUT" /\ r.path = "/todos/{id}")
         /\ t.kind = "delete" => (r.method = "DELETE" /\ r.path = "/todos/{id}")

\* C10: whenever the edit form comes to be displayed for a todo T, also by a
\* click on edit while the form is open for another todo, its fields hold
\* T's title and description; and a submit of the edit form sends the
\* values of the fields to T's id.
C10_EditFormShowsTodo ==
  [][ /\ (editingTodo' # NoTodo /\ editingTodo' # editingTodo)
           => editFields' = [title |-> editingTodo'.title,
                             description |-> editingTodo'.description]
      /\ \A s \in Slots :
           (tasks[s].kind = "idle" /\ tasks'[s].kind = "update"
              /\ tasks'[s].origin = "editForm")
             => /\ tasks'[s].id = editingTodo.id
                /\ tasks'[s].data.title = editFields.title
                /\ tasks'[s].data.description = editFields.description
    ]_vars

\* C5: if the HTTP request of createTodo, updateTodo, deleteTodo or
\* toggleTodo fails, no step of the operation, from its invocation to its
\* rejection, changes todos, total, totalPages, currentPage or filters, no
\* refetch is started, and the operation rejects with the error the request
\* failed with.
C5_FailedMutation ==
  [][ \A s \in Slots :
        /\ (tasks'[s].kind \in MutationKinds /\ tasks'[s].phase \in {"get", "mut"}
              /\ Steps(s))
             => UNCHANGED <<todos, total, totalPages, currentPage, filters>>
        /\ (tasks[s].kind \in MutationKinds /\ tasks[s].phase \in {"get", "mut"}
              /\ tasks[s].st = "err" /\ Steps(s))
             => /\ UNCHANGED <<todos, total, totalPages, currentPage, filters>>
                /\ tasks'[s].kind = "idle"
                /\ \A r \in Slots :
                      tasks'[r].phase = "fetch" => tasks[r].phase = "fetch"
                /\ tasks[s].err # NoError
                /\ settled' = [kind |-> tasks[s].kind, id |-> tasks[s].id,
                               outcome |-> "rejected", err |-> tasks[s].err]
    ]_vars

\* a deleteTodo was rejected with the network error of its request
C5_Witness ==
  /\ settled.kind = "delete" /\ settled.outcome = "rejected"
  /\ settled.err.code = "NETWORK_ERROR" /\ settled.err.status = 0
  /\ settled.id \in Ids(todos)
  /\ \A s \in Slots : tasks[s].kind = "idle"

(* ------------------------ the claims on the page ----------------------- *)
\* the todos that total counts: the filtered list of the last fetchTodos
\* that completed successfully
CountedByTotal ==
  IF lastFetch.done THEN filteredTodos(lastFetch.response, lastFetch.cf)
  ELSE <<>>

\* C11: on the statistics cards, Pendientes is the number of not-completed
\* todos and Completados the number of completed todos among the todos
\* counted by Total, so that in every state Pendientes + Completados = Total.
C11_StatisticsAddUp ==
  /\ pendingCount = Len(SelectSeq(CountedByTotal, LAMBDA t : ~t.completed))
  /\ completedCount = Len(SelectSeq(CountedByTotal, LAMBDA t : t.completed))
  /\ pendingCount + completedCount = total

\* DELETE /todos/{id}
DeleteRequest(id) ==
  [method |-> "DELETE", path |-> "/todos/{id}", id |-> id, body |-> NoData]

\* C12: a DELETE /todos/{id} request is issued only in the step in which the
\* user confirms the confirmation dialog for that todo; if the user
\* declines, no request is sent and neither the isDeleting flag of an item
\* nor the state of the hook changes.
C12_DeleteNeedsConfirm ==
  [][ /\ \A s \in Slots :
           (tasks'[s].st = "sent" /\ Request(tasks'[s]).method = "DELETE"
              /\ Steps(s))
             => /\ dialog'.n = dialog.n + 1
                /\ dialog'.answer
                /\ Request(tasks'[s]) = DeleteRequest(dialog'.id)
      /\ (dialog'.n # dialog.n /\ ~dialog'.answer)
           => UNCHANGED <<tasks, deleting, hook, server>>
      /\ (dialog'.n # dialog.n /\ dialog'.answer)
           => \E s \in Slots :
                /\ tasks[s].kind = "idle" /\ tasks'[s].st = "sent"
                /\ Request(tasks'[s]) = DeleteRequest(dialog'.id)
    ]_vars

\* the user has declined the dialog for a displayed todo: nothing is in
\* flight and no item is marked as being deleted
C12_Witness ==
  /\ dialog.n = 1 /\ ~dialog.answer
  /\ dialog.id \in Ids(todos)
  /\ deleting = {}
  /\ \A s \in Slots : tasks[s].kind = "idle"
  /\ dialog.id \in Ids(db)

\* no fetchTodos is in flight
NoFetchInFlight == \A s \in Slots : tasks[s].phase # "fetch"

\* C16: whenever no fetchTodos is in flight and the last fetch succeeded,
\* the displayed todos, total and totalPages are the ones computed from its
\* response with the current filters and currentPage of the hook: the
\* response of a fetch started under older filters or an older page has not
\* overwritten the result of a fetch started later.
C16_NoStaleResult ==
  (NoFetchInFlight /\ lastFetch.done /\ error = NullValue)
    => LET list == transformTodos(MatchingTodos(lastFetch.response, filters))
       IN
       /\ todos = PageOf(list, currentPage)
       /\ total = Len(list)
       /\ totalPages = Ceil(total, PageSize)

\* C17: the loading flag of the hook is true in every state in which at
\* least one fetchTodos is in flight, also when several fetches overlap, and
\* it is false once all fetches have completed.
C17_LoadingWhileFetching == loading = ~NoFetchInFlight

\* C18: whenever no fetch is in flight, 1 <= currentPage <= max(1,
\* totalPages), so that the displayed page is not empty whenever total > 0.
C18_PageInRange ==
  NoFetchInFlight
    => /\ 1 <= currentPage
       /\ currentPage <= Max(1, totalPages)
       /\ total > 0 => todos # <<>>

\* the fetchTodos of the effect is started in slot s
EffectFetchStarts(s) ==
  /\ tasks[s].kind = "idle"
  /\ tasks'[s].kind = "fetch" /\ tasks'[s].origin = "effect"
  /\ tasks'[s].st = "sent" /\ Request(tasks'[s]) = FetchRequest

\* C19: every call of the hook's setFilters (updateFilters), from a search
\* change, a status change or a filter reset, sets currentPage to 1
\* together with the new filters, and the fetch that follows uses the new
\* filters with page 1 and never the new filters with the old page.
C19_FiltersResetPage ==
  [][ /\ filters' # filters
           => /\ currentPage' = 1
              /\ \E s \in Slots : EffectFetchStarts(s)
              /\ \A s \in Slots :
                   EffectFetchStarts(s)
                     => (tasks'[s].cf = filters' /\ tasks'[s].cp = 1)
      /\ \A s \in Slots :
           EffectFetchStarts(s)
             => (tasks'[s].cf = filters' /\ tasks'[s].cp = currentPage')
    ]_vars

\* page 2 was displayed, then the search term has been changed: the fetch
\* in flight has the new filters and page 1
C19_Witness ==
  /\ lastFetch.done /\ lastFetch.cp = 2
  /\ filters.search # <<>> /\ lastFetch.cf # filters
  /\ currentPage = 1
  /\ \E s \in Slots :
       /\ tasks[s].phase = "fetch" /\ tasks[s].st = "sent"
       /\ tasks[s].cf = filters /\ tasks[s].cp = 1

\* the backend applies the PUT of the toggleTodo of slot s
ToggleApplied(s) ==
  /\ tasks[s].kind = "toggle" /\ tasks[s].phase = "mut"
  /\ tasks[s].st = "sent" /\ tasks'[s].st = "ok"

\* C20: todoService.toggleTodo(id) changes only the completed flag of todo
\* id on the server: it inverts the value the todo has when the toggle is
\* applied and leaves the title and the description of that todo and every
\* other todo unchanged, also when an updateTodo for the same id completes
\* between the GET and the PUT of the toggle.  (A description that is absent
\* and an empty description count as the same.)
C20_ToggleOnlyFlipsCompleted ==
  [][ \A s \in Slots :
        ToggleApplied(s)
          => /\ Len(db') = Len(db)
             /\ \A j \in 1..Len(db) :
                  /\ db'[j].id = db[j].id
                  /\ db'[j].title = db[j].title
                  /\ OrEmpty(db'[j].description) = OrEmpty(db[j].description)
                  /\ db'[j].completed =
                       IF db[j].id = tasks[s].id THEN ~db[j].completed
                       ELSE db[j].completed
    ]_vars

\* C15: a request that fails is retried by the HTTP interceptors of
\* apiService before the error is delivered to the caller: a request whose
\* error the caller has received has been sent at least twice.
C15_RetryBeforeError ==
  \A s \in Slots : tasks[s].st = "err" => tasks[s].attempts >= 2

(* ------------------ the claims on the forms and the items ------------- *)
\* the edit form is submitted: its updateTodo starts in slot s
EditSubmitted(s) ==
  /\ tasks[s].kind = "idle"
  /\ tasks'[s].kind = "update" /\ tasks'[s].origin = "editForm"
  /\ tasks'[s].st = "sent"

\* C21: submitting the edit form for a todo preserves that todo's completed
\* state: the PUT it sends carries the completed value the todo has on the
\* server at the moment of submission, also when the todo was toggled after
\* the edit form was opened.
C21_EditKeepsCompleted ==
  [][ \A s \in Slots :
        (EditSubmitted(s) /\ tasks'[s].id \in Ids(db))
          => /\ Request(tasks'[s]).method = "PUT"
             /\ Request(tasks'[s]).body.completed
                  = db[IndexOfId(db, tasks'[s].id)].completed
    ]_vars

\* the slots of the operations of the given kind whose callback for todo id
\* has not settled yet
InFlightFor(kind, id) ==
  {s \in Slots : tasks[s].kind = kind /\ tasks[s].id = id}

\* the item of todo id is rendered
Rendered(id) == ~loading /\ id \in Ids(todos)

\* the flags of the rendered items belong to callbacks that have not settled
FlagsCleared ==
  /\ \A id \in toggling : InFlightFor("toggle", id) # {}
  /\ \A id \in deleting : InFlightFor("delete", id) # {}

\* C22: for each todo at most one toggle operation is in flight at any time:
\* from the click until the toggle callback settles the toggle button of the
\* item is disabled, also when the list is reloaded in between, and the
\* isToggling and isDeleting flags are false again after the callback has
\* settled.
C22_OneToggleInFlight ==
  /\ \A s \in Slots :
       tasks[s].kind = "toggle"
         => /\ Cardinality(InFlightFor("toggle", tasks[s].id)) = 1
            /\ Rendered(tasks[s].id) => tasks[s].id \in toggling
  /\ FlagsCleared

FormOrigins == {"createForm", "editForm"}

\* the slots whose POST or PUT, sent by a submit of the given form, is in
\* flight
FormRequests(origin) ==
  {s \in Slots : tasks[s].origin = origin /\ tasks[s].phase = "mut"}

\* C23: while the POST of a create submission or the PUT of an edit
\* submission is in flight, the submit button of the form is disabled (the
\* button is disabled exactly when loading is true), so that one filled-in
\* form produces at most one create or update request.
C23_OneRequestPerSubmit ==
  /\ \A o \in FormOrigins : FormRequests(o) # {} => loading
  /\ \A o \in FormOrigins : Cardinality(FormRequests(o)) <= 1

\* the createTodo or updateTodo of slot s, called by a form, rejects: its
\* POST or PUT has failed
FormRejects(s) ==
  /\ tasks[s].origin \in FormOrigins
  /\ tasks[s].phase = "mut" /\ tasks[s].st = "err"
  /\ Steps(s)

\* ... resolves: its refetch has completed
FormResolves(s) ==
  /\ tasks[s].origin \in FormOrigins
  /\ tasks[s].phase = "fetch" /\ tasks[s].st \in {"ok", "err"}
  /\ Steps(s)

\* C24: if createTodo or updateTodo rejects, the create or edit form stays
\* open (showForm and editingTodo unchanged) and its fields are not reset; if
\* it resolves, the form is closed (showForm = false, respectively
\* editingTodo = null) and, for a creation, the fields are reset.
C24_FormAfterSubmit ==
  [][ \A s \in Slots :
        /\ FormRejects(s)
             => /\ settled'.outcome = "rejected"
                /\ UNCHANGED <<showForm, editingTodo, createFields, editFields>>
        /\ FormResolves(s)
             => /\ settled'.outcome = "resolved"
                /\ tasks[s].origin = "createForm"
                     => (showForm' = FALSE /\ createFields' = EmptyFields)
                /\ tasks[s].origin = "editForm" => editingTodo' = NoTodo
    ]_vars

\* the POST of a submit of the create form has failed: createTodo has
\* rejected, the form is open and shows what the user typed
C24_Witness ==
  /\ settled.kind = "create" /\ settled.outcome = "rejected"
  /\ showForm
  /\ createFields = [title |-> <<"B">>, description |-> <<"a">>]
  /\ \A s \in Slots : tasks[s].kind = "idle"
  /\ Len(db) = MaxTodos

\* the fetchTodos of slot s receives the error of its GET /todos
FetchFailed(s) ==
  tasks[s].phase = "fetch" /\ tasks[s].st = "err" /\ Steps(s)

\* a fetchTodos starts in slot s
FetchStarts(s) ==
  /\ tasks[s].phase # "fetch"
  /\ tasks'[s].phase = "fetch" /\ tasks'[s].st = "sent"

\* todos, total and totalPages as the last successful fetchTodos set them,
\* or as the hook initialises them
LastDisplayed ==
  IF lastFetch.done THEN
    LET list == filteredTodos(lastFetch.response, lastFetch.cf) IN
    <<paginatedTodos(list, lastFetch.cp, PageSize), Len(list),
      calculatedTotalPages(Len(list), PageSize)>>
  ELSE <<<<>>, 0, 0>>

\* C25: if the GET of fetchTodos fails, error is set to a non-empty message,
\* loading becomes false, and todos, total and totalPages keep the values of
\* the last successful fetch; error is reset to null at the start of every
\* fetch; and a mutation operation whose own request succeeded resolves
\* without rejecting even when its refetch fails.
C25_FetchFailure ==
  [][ \A s \in Slots :
        /\ FetchFailed(s)
             => /\ error' \notin {NullValue, ""}
                /\ loading' = FALSE
                /\ UNCHANGED <<todos, total, totalPages>>
                /\ <<todos', total', totalPages'>> = LastDisplayed
                /\ tasks[s].kind \in MutationKinds
                     => settled' = [kind |-> tasks[s].kind, id |-> tasks[s].id,
                                    outcome |-> "resolved", err |-> NoError]
        /\ FetchStarts(s) => error' = NullValue
    ]_vars

\* the POST of a createTodo succeeded and its refetch failed: createTodo has
\* resolved, the error is displayed with the list of the fetch before
C25_Witness ==
  /\ settled.kind = "create" /\ settled.outcome = "resolved"
  /\ Len(db) = MaxTodos + 1
  /\ error = "Error del servidor"
  /\ ~loading
  /\ lastFetch.done /\ Len(lastFetch.response) = MaxTodos
  /\ total = MaxTodos /\ Len(todos) = PageSize
  /\ \A s \in Slots : tasks[s].kind = "idle"

(* ----------------------- the claim on HealthCheck ---------------------- *)
\* the serial numbers of the checks in flight
CheckIds(cs) == {cs[k].n : k \in 1..Len(cs)}

\* C13: while HealthCheck is mounted, a health check (GET /health) is
\* started at mount and again at every interval tick, healthCheckInterval
\* ms after the one before; each check that completes moves the status from
\* 'checking' to 'healthy' on success and to 'error' on failure, also after
\* an earlier 'error'; the status leaves 'healthy' and 'error' only by the
\* start of the next check; after unmount no further check is started.
C13_HealthCheck ==
  /\ healthMounted = TRUE
  /\ status = "checking"
  /\ CheckIds(checks) = {1}
  /\ checks[1].st = "sent"
  /\ [][  /\ ticks' # ticks
               => /\ healthMounted
                  /\ now = interval.due
                  /\ interval'.due = interval.due + healthCheckInterval
                  /\ status' = "checking"
                  /\ \E k \in 1..Len(checks') :
                        /\ checks'[k].n \notin CheckIds(checks)
                        /\ checks'[k].st = "sent"
          /\ (healthMounted /\ now' # now) => now' <= interval.due
          /\ \A k \in 1..Len(checks) :
               (healthMounted /\ checks[k].n \notin CheckIds(checks'))
                 => /\ status = "checking"
                    /\ (checks[k].st = "ok" => status' = "healthy")
                    /\ (checks[k].st = "err" => status' = "error")
                    /\ checks[k].st # "sent"
          /\ (status \in {"healthy", "error"} /\ status' # status)
               => (status' = "checking" /\ ticks' # ticks)
          /\ ~healthMounted' => CheckIds(checks') \subseteq CheckIds(checks)
          /\ ~healthMounted => ~healthMounted'
        ]_vars

\* the first check failed, the check of the first tick succeeded: the
\* status is 'healthy' again
C13_Witness ==
  /\ healthMounted
  /\ healthLog = <<"error", "healthy">>
  /\ status = "healthy"
  /\ lastCheck = <<healthCheckInterval>>
  /\ ticks = 1

(* ------------- the functions of the services on their own -------------- *)
\* the statuses of the error responses
ErrStatuses == {400, 401, 404, 422, 500, 503}

\* the items of the detail array of a 422 response of FastAPI
DetailItems ==
  { [loc |-> <<"body", "title">>, msg |-> "field required"],
    [loc |-> <<>>, msg |-> "value is not valid"] }

Details ==
  {NoDetail}
    \cup {[kind |-> "string", text |-> t, items |-> <<>>] :
            t \in {"", "Título duplicado"}}
    \cup {[kind |-> "array", text |-> "", items |-> it] :
            it \in UNION {[1..k -> DetailItems] : k \in 0..MaxItems}}

\* the errors axios hands to the rejected-handler of the response interceptor
AxiosErrors ==
  [response : BOOLEAN, status : ErrStatuses, detail : Details,
   dataMessage : {"", "Conflicto"}, request : BOOLEAN,
   message : {"", "Network Error"}]

InitErr ==
  /\ Mounted
  /\ arg \in AxiosErrors
  /\ result = <<>>

\* a call through apiService fails: the interceptor rejects with apiError
Intercept ==
  /\ result = <<>>
  /\ result' = <<responseInterceptor(arg)>>
  /\ UNCHANGED <<server, hook, page, items, tasks, events, edits, failures,
                 hist, arg, health>>

SpecErr == InitErr /\ [][Intercept]_vars

\* the body of the response has a detail
HasDetail(axiosError) ==
  \/ axiosError.detail.kind = "array"
  \/ axiosError.detail.kind = "string" /\ axiosError.detail.text # ""

\* C8: every failed call through apiService rejects with an error object
\* that has a message, a numeric status and a code.  A 404 response gives
\* status 404 and the message 'Todo no encontrado'; a 422 response gives
\* status 422 and the code 'VALIDATION_ERROR', with the detail of the body as
\* details when the body has one; a response with a status of 500 or more
\* gives that status and the message 'Error del servidor'; a request that got
\* no response gives status 0 and the code 'NETWORK_ERROR'; any other
\* response keeps its own status.
C8_NormalizedError ==
  result # <<>> =>
    LET e == arg
        a == result[1]
    IN
    /\ {"message", "status", "code"} \subseteq DOMAIN a
    /\ a.status \in Nat
    /\ a.code \in {NullCode, "VALIDATION_ERROR", "NETWORK_ERROR"}
    /\ (e.response /\ e.status = 404) =>
          (a.status = 404 /\ a.message = "Todo no encontrado")
    /\ (e.response /\ e.status = 422) =>
          /\ a.status = 422
          /\ a.code = "VALIDATION_ERROR"
          /\ HasDetail(e) => a.details = e.detail
    /\ (e.response /\ e.status >= 500) =>
          (a.status = e.status /\ a.message = "Error del servidor")
    /\ (~e.response /\ e.request) =>
          (a.status = 0 /\ a.code = "NETWORK_ERROR")
    /\ (e.response /\ e.status \notin {404, 422} /\ e.status < 500) =>
          a.status = e.status

\* a 422 response with two detail items was normalized
C8_Witness ==
  /\ result # <<>>
  /\ arg.response /\ arg.status = 422
  /\ arg.detail.kind = "array" /\ Len(arg.detail.items) = 2
  /\ result[1].code = "VALIDATION_ERROR"
  /\ result[1].details = arg.detail
  /\ result[1].message = "body.title: field required, Campo: value is not valid"

\* the dates given to formatRelativeDateFromAPI
DateStrings == UNION {[1..n -> Units] : n \in 0..MaxUnits}

Dates ==
  {[kind |-> "string", str |-> str, obj |-> InvalidDate] : str \in DateStrings}
    \cup {[kind |-> k, str |-> <<>>, obj |-> InvalidDate] :
            k \in {"null", "number"}}
    \cup {[kind |-> "Date", str |-> <<>>, obj |-> d] :
            d \in {InvalidDate, [valid |-> TRUE, time |-> 0]}}

\* the offsets of the local time from UTC, in minutes
TimezoneOffsets == {0 - 60, 0, 120}

\* the times at which the function is called
CurrentTimes == {0, 95}

DateArgs == [date : Dates, tz : TimezoneOffsets, current : CurrentTimes]

InitDate ==
  /\ Mounted
  /\ arg \in DateArgs
  /\ result = <<>>

\* formatRelativeDateFromAPI(date) returns
FormatDate ==
  /\ result = <<>>
  /\ result' = <<formatRelativeDateFromAPI(arg.date, arg.tz, arg.current)>>
  /\ UNCHANGED <<server, hook, page, items, tasks, events, edits, failures,
                 hist, arg, health>>

SpecDate == InitDate /\ [][FormatDate]_vars

\* the string the claim has parsed: with the suffix 'Z', once
Normalised(str) == IF str # <<>> /\ str[Len(str)] = "Z" THEN str ELSE str \o <<"Z">>

\* the string is a date with a time, followed by 'Z'
IsUtcTimestamp(str) == Len(str) = 2 /\ str[1] \in DateTimes /\ str[2] = "Z"

\* C14: formatRelativeDateFromAPI reads a timestamp string as UTC, whatever
\* the local time zone: it parses the string with the suffix 'Z' appended
\* exactly when the string does not already end in 'Z', so that the result
\* for a string and for the string with its suffix are the same; it returns
\* the empty string for a missing or unparseable date, and always returns a
\* string.
C14_FormatFromAPI ==
  result # <<>> =>
    LET date == arg.date
        r == result[1]
    IN
    /\ r \in STRING
    /\ date.kind = "null" => r = ""
    /\ (date.kind = "Date" /\ ~date.obj.valid) => r = ""
    /\ date.kind = "string" =>
         /\ (date.str = <<>> \/ ~IsUtcTimestamp(Normalised(date.str))) => r = ""
         /\ IsUtcTimestamp(Normalised(date.str)) =>
              r = formatDistance(WallClock(date.str[1]), arg.current)
         /\ date.str # <<>> =>
              r = formatRelativeDateFromAPI(
                    [date EXCEPT !.str = Normalised(date.str)],
                    arg.tz, arg.current)

\* a timestamp without suffix, in a browser two hours ahead of UTC, 95
\* minutes after the timestamp
C14_Witness ==
  /\ result # <<>>
  /\ arg.date.kind = "string" /\ arg.date.str = <<"T0">>
  /\ arg.tz = 120 /\ arg.current = 95
  /\ result[1] = "hace alrededor de 2 horas"

\* the titles and descriptions given to validateTodo: absent, empty, only
\* whitespace, and of the lengths around the limits
Padding == {Rep(" ", n) : n \in 0..MaxPad} \cup {Rep("\t", n) : n \in 0..MaxPad}

TitleLengths == {0, 1, MaxTitleLen - 1} \cup (MaxTitleLen..MaxTitleLen + MaxOver)

DescriptionLengths == {0, 1} \cup (MaxDescriptionLen..MaxDescriptionLen + MaxOver)

Titles ==
  {Null} \cup {l \o Rep("a", n) \o r : l \in Padding, r \in Padding,
                                        n \in TitleLengths}

Descriptions == {Null} \cup {Rep("d", n) : n \in DescriptionLengths}

TodoDatas == [title : Titles, description : Descriptions]

InitValidate ==
  /\ Mounted
  /\ arg \in TodoDatas
  /\ result = <<>>

\* todoService.validateTodo(todoData) returns
Validate ==
  /\ result = <<>>
  /\ result' = <<validateTodo(arg)>>
  /\ UNCHANGED <<server, hook, page, items, tasks, events, edits, failures,
                 hist, arg, health>>

SpecValidate == InitValidate /\ [][Validate]_vars

\* the title is present, not empty after trimming and at most 255 characters
TitleRule(title) ==
  /\ title # Null
  /\ \E i \in 1..Len(title) : title[i] \notin WhiteSpace
  /\ Len(title) <= 255

\* the description is absent or at most 1024 characters
DescriptionRule(description) ==
  description = Null \/ Len(description) <= 1024

\* C9: validateTodo(todoData) returns isValid = true exactly when the title
\* is present, non-empty after trimming and at most 255 characters long and
\* the description is absent or at most 1024 characters long; errors has the
\* key 'title' exactly when the title rule is violated and the key
\* 'description' exactly when the description rule is violated.
C9_ValidateTodo ==
  result # <<>> =>
    /\ result[1].isValid
          = (TitleRule(arg.title) /\ DescriptionRule(arg.description))
    /\ ("title" \in result[1].errors) = ~TitleRule(arg.title)
    /\ ("description" \in result[1].errors)
          = ~DescriptionRule(arg.description)

\* an empty title with a description of 1025 characters gave both keys
C9_Witness ==
  /\ result # <<>>
  /\ arg.title = <<>>
  /\ arg.description # Null /\ Len(arg.description) = 1025
  /\ result[1].errors = {"title", "description"}
  /\ ~result[1].isValid

====
